---- MODULE Spec2Model ----
(***************************************************************************)
(* Model of streamlit_demo.titanic_wrangler.TitanicWrangler: the sixteen   *)
(* stages of prepare_data and calculate_survival_rate, over polars tables. *)
(*                                                                         *)
(* A table is [cols |-> sequence of column names, rows |-> sequence of     *)
(* records].  A cell is a tagged value: Null, I(n) (integer), F(n) (a      *)
(* Float64 held in fixed point, n counts 1/Unit), S(s) (a string, held as  *)
(* a tuple of one-character strings so that slicing and the title regex    *)
(* are computed on characters).                                            *)
(*                                                                         *)
(* polars defaults that decide behaviour are modelled as documented:       *)
(*  - join(on=...) is an inner join in which a null key matches nothing;   *)
(*  - join keeps no row order by default: the hash join probes with the    *)
(*    longer side, so the left order is kept only when the left table has  *)
(*    more rows than the grouped right table, otherwise the order is that  *)
(*    of the grouped table, which group_by leaves unspecified;             *)
(*  - group_by makes null a group of its own;                               *)
(*  - is_in of a null value against a list holding None is null or true    *)
(*    by the polars release, and no release is pinned: both are outcomes;  *)
(*  - when/then/otherwise takes the supertype of its branches (String for  *)
(*    String with Float64).                                                *)
(***************************************************************************)
EXTENDS Integers, Sequences, FiniteSets, TLC

VARIABLES raw, table, pc, unit, err, stats, groupBy, load, beer, chart

vars == <<raw, table, pc, unit, err, stats, groupBy, load, beer, chart>>

(* ------------------------------ bounds -------------------------------- *)
MaxRows == 2        \* freely varying rows of a prepare_data input
BulkRows == 4       \* identical well-formed rows that may precede them
MaxTitleRows == 6   \* rows of a table given to _consolidate_titles alone
MaxUnitRows == 3    \* rows of a table given to any other stage alone
MaxRateRows == 3    \* rows of a table given to calculate_survival_rate alone

(* ------------------------------ values -------------------------------- *)
Unit == 10          \* fixed-point resolution of a modelled Float64: 0.1

Null == [t |-> "null"]
I(n) == [t |-> "i64", v |-> n]
F(n) == [t |-> "f64", v |-> n]
S(s) == [t |-> "str", v |-> s]

IsNull(x) == x.t = "null"
IsNum(x) == x.t \in {"i64", "f64"}
IsStr(x) == x.t = "str"

Range(f) == {f[i] : i \in DOMAIN f}

Min2(a, b) == IF a < b THEN a ELSE b

\* characters in ASCII order, for string comparison
Alphabet == <<" ", "(", ")", ",", ".", "0", "1", "2", "3", "4", "5", "6", "7",
  "8", "9", "A", "B", "C", "D", "E", "F", "G", "H", "I", "J", "K", "L", "M",
  "N", "O", "P", "Q", "R", "S", "T", "U", "V", "W", "X", "Y", "Z", "a", "b",
  "c", "d", "e", "f", "g", "h", "i", "j", "k", "l", "m", "n", "o", "p", "q",
  "r", "s", "t", "u", "v", "w", "x", "y", "z">>

Code(c) == CHOOSE i \in DOMAIN Alphabet : Alphabet[i] = c

Digits == <<"0", "1", "2", "3", "4", "5", "6", "7", "8", "9">>

IsDigit(c) == c \in Range(Digits)

DigitVal(c) == (CHOOSE i \in DOMAIN Digits : Digits[i] = c) - 1

(* string literals of the program *)
sNone == <<"N", "o", "n", "e">>
sOther == <<"O", "t", "h", "e", "r">>
sSurvived == <<"S", "u", "r", "v", "i", "v", "e", "d">>
sDied == <<"D", "i", "e", "d">>
sOverall == <<"O", "v", "e", "r", "a", "l", "l">>
sSouthampton == <<"S", "o", "u", "t", "h", "a", "m", "p", "t", "o", "n">>
sCherbourg == <<"C", "h", "e", "r", "b", "o", "u", "r", "g">>
sQueenstown == <<"Q", "u", "e", "e", "n", "s", "t", "o", "w", "n">>

(* ------------------------- casts and formatting ----------------------- *)
RECURSIVE DecVal(_)
\* value of a string of decimal digits
DecVal(s) == IF s = <<>> THEN 0
             ELSE 10 * DecVal(SubSeq(s, 1, Len(s) - 1)) + DigitVal(s[Len(s)])

AllDigits(s) == \A i \in DOMAIN s : IsDigit(s[i])

\* str -> Float64 as polars parses it, for the forms "d+" and "d+.d"; every
\* other text modelled here is not a number and gives null
ParseF64(s) ==
  IF Len(s) > 0 /\ AllDigits(s) THEN F(DecVal(s) * Unit)
  ELSE IF /\ Len(s) >= 3
          /\ s[Len(s) - 1] = "."
          /\ AllDigits(SubSeq(s, 1, Len(s) - 2))
          /\ IsDigit(s[Len(s)])
       THEN F(DecVal(SubSeq(s, 1, Len(s) - 2)) * Unit + DigitVal(s[Len(s)]))
       ELSE Null

\* cast(pl.Float64, strict=False) of one value
CastF64(x) ==
  CASE x.t = "null" -> Null
    [] x.t = "i64" -> F(x.v * Unit)
    [] x.t = "f64" -> x
    [] x.t = "str" -> ParseF64(x.v)

RECURSIVE DecStr(_)
\* decimal digits of a natural number
DecStr(n) == IF n < 10 THEN <<Digits[n + 1]>>
             ELSE DecStr(n \div 10) \o <<Digits[(n % 10) + 1]>>

\* Float64 -> String as polars renders it (1.0 -> "1.0"), non-negative values
FormatF64(n) == DecStr(n \div Unit) \o <<".">> \o DecStr(n % Unit)

\* cast to String of one value (the supertype cast of when/then/otherwise)
CastStr(x) ==
  CASE x.t = "null" -> Null
    [] x.t = "i64" -> S(DecStr(x.v))
    [] x.t = "f64" -> S(FormatF64(x.v))
    [] x.t = "str" -> x

\* cast(pl.Int32) of one value: truncation; a text that is no number has no
\* Int32 value (the strict cast then raises)
CastI32(x) ==
  CASE x.t = "null" -> Null
    [] x.t = "i64" -> x
    [] x.t = "f64" -> I(x.v \div Unit)
    [] x.t = "str" -> IF ParseF64(x.v) = Null THEN Null
                      ELSE I(ParseF64(x.v).v \div Unit)

(* ------------------------------ tables -------------------------------- *)
Table(cols, rows) == [cols |-> cols, rows |-> rows]

HasCols(t, needs) == needs \subseteq Range(t.cols)

\* with_columns(expr.alias(c)) on one row: replace c, or add it
WithCell(r, c, x) == [k \in (DOMAIN r) \cup {c} |-> IF k = c THEN x ELSE r[k]]

AddCol(cols, c) == IF c \in Range(cols) THEN cols ELSE Append(cols, c)

\* with_columns of one expression named c, given by its value in each row
WithColumn(t, c, col) ==
  Table(AddCol(t.cols, c),
        [i \in DOMAIN t.rows |-> WithCell(t.rows[i], c, col[i])])

\* the rows of one group of group_by(c): null is a group of its own
GroupRows(rows, c, key) == {i \in DOMAIN rows : rows[i][c] = key}

GroupKeys(rows, c) == {rows[i][c] : i \in DOMAIN rows}

\* group_by(c).len() for one key
GroupLen(rows, c, key) == Cardinality(GroupRows(rows, c, key))

\* all orders of the elements of a sequence
Perms(s) ==
  LET n == Len(s)
      P == {p \in [1..n -> 1..n] : \A i, j \in 1..n : i # j => p[i] # p[j]}
  IN {[i \in 1..n |-> s[p[i]]] : p \in P}

RECURSIVE SelectRows(_, _)
\* filter: the rows of a sequence whose index is in keep, in order
SelectRows(rows, keep) ==
  IF rows = <<>> THEN <<>>
  ELSE LET rest == SelectRows(SubSeq(rows, 1, Len(rows) - 1), keep)
       IN IF Len(rows) \in keep THEN Append(rest, rows[Len(rows)]) ELSE rest

\* left.join(left.group_by(c).agg(...), on=c), agg giving the aggregate of
\* each group: the possible results.  Inner join, null keys match nothing;
\* the left order survives only when the left table is the longer (probe)
\* side
JoinOnGroup(t, c, new, agg) ==
  LET Joined(r) == WithCell(r, new, agg[r[c]])
      kept == SelectRows(t.rows, {i \in DOMAIN t.rows : ~IsNull(t.rows[i][c])})
      out == [i \in DOMAIN kept |-> Joined(kept[i])]
      nGroups == Cardinality(GroupKeys(t.rows, c))
      orders == IF Len(t.rows) > nGroups THEN {out} ELSE Perms(out)
  IN {Table(AddCol(t.cols, new), o) : o \in orders}

(* --------------------- the stages of prepare_data --------------------- *)
NumericColumns == {"PassengerId", "Survived", "Age", "SibSp", "Parch", "Fare"}

\* a fill that leaves the null in place
FillNullKept(x, d) == x

\* fill_null(d) of one value
FillNull(x, d) == IF IsNull(x) THEN d ELSE x

CoerceNumericColumnsOf(t) ==
  Table(t.cols,
        [i \in DOMAIN t.rows |->
          [k \in DOMAIN t.rows[i] |->
            IF k \in NumericColumns THEN CastF64(t.rows[i][k])
            ELSE t.rows[i][k]]])

FillnaCabinOf(t) ==
  WithColumn(t, "Cabin",
             [i \in DOMAIN t.rows |-> FillNull(t.rows[i].Cabin, S(sNone))])

FillnaFareOf(t) ==
  WithColumn(t, "Fare", [i \in DOMAIN t.rows |-> FillNull(t.rows[i].Fare, F(0))])

FillnaEmbarkedOf(t) ==
  WithColumn(t, "Embarked",
             [i \in DOMAIN t.rows |-> FillNull(t.rows[i].Embarked, S(<<"S">>))])

\* str.extract(r"^.* (.*?)\..*$", 1): the greedy prefix ends at the last
\* space that still has a period after it, the lazy group runs from there to
\* the first period; null when there is no such space
ExtractTitle(x) ==
  IF ~IsStr(x) THEN Null
  ELSE LET s == x.v
           P == {i \in DOMAIN s :
                   s[i] = " " /\ \E j \in DOMAIN s : j > i /\ s[j] = "."}
       IN IF P = {} THEN Null
          ELSE LET p == CHOOSE i \in P : \A k \in P : k <= i
                   Q == {j \in DOMAIN s : j > p /\ s[j] = "."}
                   q == CHOOSE j \in Q : \A k \in Q : j <= k
               IN S(SubSeq(s, p + 1, q - 1))

ExtractTitleFromNameOf(t) ==
  WithColumn(t, "Title",
             [i \in DOMAIN t.rows |-> ExtractTitle(t.rows[i].Name)])

RareTitleLimit == 5

\* the boundary count taken as rare too
TitlesToConsolidateUpTo(rows) ==
  {k \in GroupKeys(rows, "Title") : GroupLen(rows, "Title", k) <= RareTitleLimit}

\* the titles (null included) that group_by("Title").len() counts below 5
TitlesToConsolidate(rows) ==
  {k \in GroupKeys(rows, "Title") : GroupLen(rows, "Title", k) < RareTitleLimit}

\* is_in(list) as the condition of when().  A non-null value is "in" when
\* the list holds it.  For a null value the answer is the installed polars'
\* (the repository pins no version): releases whose is_in propagates null
\* give null, which when() takes as false; releases whose is_in compares
\* null as a value give true when the list holds a None.
IsIn(x, list, nulls_equal) ==
  IF IsNull(x) THEN nulls_equal /\ x \in list ELSE x \in list

ConsolidateTitlesOf(t, nulls_equal) ==
  WithColumn(t, "Title",
    [i \in DOMAIN t.rows |->
       IF IsIn(t.rows[i].Title, TitlesToConsolidate(t.rows), nulls_equal)
       THEN S(sOther)
       ELSE t.rows[i].Title])

\* the CabinOccupancy of one group: its length, forced to 0 for "None"
CabinOccupancyOf(rows, key) ==
  IF key = S(sNone) THEN I(0) ELSE I(GroupLen(rows, "Cabin", key))

AddCabinOccupancyOf(t) ==
  JoinOnGroup(t, "Cabin", "CabinOccupancy",
              [k \in GroupKeys(t.rows, "Cabin") |-> CabinOccupancyOf(t.rows, k)])

TicketShareCountOf(rows, key) == I(GroupLen(rows, "Ticket", key))

AddTicketSharingCountOf(t) ==
  JoinOnGroup(t, "Ticket", "TicketShareCount",
              [k \in GroupKeys(t.rows, "Ticket") |-> TicketShareCountOf(t.rows, k)])

\* str.slice(0, 1)
CabinLevel(x) ==
  IF ~IsStr(x) THEN Null ELSE S(SubSeq(x.v, 1, Min2(1, Len(x.v))))

ExtractCabinLevelOf(t) ==
  WithColumn(t, "Level",
             [i \in DOMAIN t.rows |-> CabinLevel(t.rows[i].Cabin)])

\* log10 of a positive fixed-point value, to whole numbers: exact for the
\* powers of ten 0.1, 1, 10, 100, 1000
Log10(n) ==
  LET Pow == <<1, 10, 100, 1000, 10000, 100000>>
      e == CHOOSE k \in 1..5 : Pow[k] <= n /\ n < Pow[k + 1]
  IN (e - 2) * Unit

FareLog10OfAboveOne(x) ==
  IF ~IsNull(x) /\ x.v > Unit THEN F(Log10(x.v)) ELSE F(0)

FareLog10Of(x) == IF ~IsNull(x) /\ x.v > 0 THEN F(Log10(x.v)) ELSE F(0)

AddLog10OfFareOf(t) ==
  WithColumn(t, "FareLog10",
             [i \in DOMAIN t.rows |-> FareLog10Of(t.rows[i].Fare)])

RECURSIVE SumAge(_, _)
SumAge(rows, idx) ==
  IF idx = {} THEN 0
  ELSE LET i == CHOOSE j \in idx : TRUE
       IN rows[i].Age.v + SumAge(rows, idx \ {i})

\* mean().cast(pl.Int32) of the ages of one Title group: nulls are ignored,
\* the mean is truncated, a group with no age has a null mean
AverageAge(rows, key) ==
  LET known == {i \in GroupRows(rows, "Title", key) : ~IsNull(rows[i].Age)}
  IN IF known = {} THEN Null
     ELSE I((SumAge(rows, known) \div Cardinality(known)) \div Unit)

ImputeAge(r) == IF IsNull(r.Age) THEN CastF64(r.AverageAge) ELSE r.Age

DropColKept(t, c) == t

DropCol(t, c) ==
  Table(SelectRows(t.cols, {i \in DOMAIN t.cols : t.cols[i] # c}),
        [i \in DOMAIN t.rows |->
          [k \in (DOMAIN t.rows[i]) \ {c} |-> t.rows[i][k]]])

ImputeMissingAgeBasedOnTitleOf(t) ==
  {DropCol(WithColumn(j, "Age", [i \in DOMAIN j.rows |-> ImputeAge(j.rows[i])]),
           "AverageAge") :
     j \in JoinOnGroup(t, "Title", "AverageAge",
                       [k \in GroupKeys(t.rows, "Title") |-> AverageAge(t.rows, k)])}

DecadeRounded(x) ==
  IF IsNull(x) THEN Null ELSE F(((x.v + 5 * Unit) \div (10 * Unit)) * Unit)

\* Age // 10 on Float64: the floor, still a Float64
Decade(x) == IF IsNull(x) THEN Null ELSE F((x.v \div (10 * Unit)) * Unit)

CalculateDecadeFromAgeOf(t) ==
  WithColumn(t, "AgeInDecades",
             [i \in DOMAIN t.rows |-> Decade(t.rows[i].Age)])

\* no remapping: level T kept
ResolveLevelKept(x) == x

\* when(Level == "T").then("A").otherwise(Level)
ResolveLevel(x) == IF x = S(<<"T">>) THEN S(<<"A">>) ELSE x

ResolveLevelTOf(t) ==
  WithColumn(t, "Level",
             [i \in DOMAIN t.rows |-> ResolveLevel(t.rows[i].Level)])

ColumnsToConvert == {"AgeInDecades", "Pclass"}

\* the strict cast raises when a value that is not null has no Int32 value
CastI32Fails(t) ==
  \E i \in DOMAIN t.rows : \E c \in ColumnsToConvert :
    ~IsNull(t.rows[i][c]) /\ IsNull(CastI32(t.rows[i][c]))

ConvertFloatToIntOf(t) ==
  Table(t.cols,
        [i \in DOMAIN t.rows |->
          [k \in DOMAIN t.rows[i] |->
            IF k \in ColumnsToConvert THEN CastI32(t.rows[i][k])
            ELSE t.rows[i][k]]])

\* the two outcomes taken for each other
SurvivedStringSwapped(x) ==
  IF IsNum(x) /\ x.v = 1 * (IF x.t = "f64" THEN Unit ELSE 1) THEN S(sDied)
  ELSE IF IsNum(x) /\ x.v = 0 THEN S(sSurvived)
  ELSE CastStr(x)

\* when(== 1) / when(== 0) / otherwise(the column), in the supertype String
SurvivedString(x) ==
  IF IsNum(x) /\ x.v = 1 * (IF x.t = "f64" THEN Unit ELSE 1) THEN S(sSurvived)
  ELSE IF IsNum(x) /\ x.v = 0 THEN S(sDied)
  ELSE CastStr(x)

ConvertSurvivedToStringOf(t) ==
  WithColumn(t, "Survived", [i \in DOMAIN t.rows |-> SurvivedString(t.rows[i].Survived)])

\* {'S': ..., 'C': ..., 'Q': ...}.get(x, x); map_elements skips nulls
LocationNameOrNull(x) ==
  CASE x = S(<<"S">>) -> S(sSouthampton)
    [] x = S(<<"C">>) -> S(sCherbourg)
    [] x = S(<<"Q">>) -> S(sQueenstown)
    [] OTHER -> Null

LocationName(x) ==
  IF IsNull(x) THEN Null
  ELSE CASE x.v = <<"S">> -> S(sSouthampton)
         [] x.v = <<"C">> -> S(sCherbourg)
         [] x.v = <<"Q">> -> S(sQueenstown)
         [] OTHER -> x

ConvertEmbarkedToLocationNamesOf(t) ==
  WithColumn(t, "Embarked", [i \in DOMAIN t.rows |-> LocationName(t.rows[i].Embarked)])

(* ----------------------- calculate_survival_rate ---------------------- *)
NoGroup == "None"

RECURSIVE LexLess(_, _)
LexLess(a, b) ==
  IF a = <<>> THEN b # <<>>
  ELSE IF b = <<>> THEN FALSE
  ELSE IF a[1] = b[1] THEN LexLess(Tail(a), Tail(b))
  ELSE Code(a[1]) < Code(b[1])

\* the order of sort("Category"): nulls first, then ascending
LessVal(a, b) ==
  IF IsNull(a) THEN ~IsNull(b)
  ELSE IF IsNull(b) THEN FALSE
  ELSE IF IsStr(a) THEN LexLess(a.v, b.v)
  ELSE a.v < b.v

RECURSIVE SortKeysDescending(_)
\* the categories in falling order
SortKeysDescending(K) ==
  IF K = {} THEN <<>>
  ELSE LET m == CHOOSE x \in K : \A y \in K \ {x} : LessVal(y, x)
       IN <<m>> \o SortKeysDescending(K \ {m})

RECURSIVE SortKeys(_)
SortKeys(K) ==
  IF K = {} THEN <<>>
  ELSE LET m == CHOOSE x \in K : \A y \in K \ {x} : LessVal(x, y)
       IN <<m>> \o SortKeys(K \ {m})

\* every row that is not "Died" taken as a survivor
SurvivedRowsNotDied(rows, idx) == {i \in idx : rows[i].Survived # S(sDied)}

\* the rows kept by filter(pl.col("Survived") == "Survived")
SurvivedRows(rows, idx) == {i \in idx : rows[i].Survived = S(sSurvived)}

\* the ratio left as a fraction
RateAsFraction(survived, total) == (survived * Unit) \div total

\* survived / total * 100 as a fixed-point Float64
Rate(survived, total) == (survived * 100 * Unit) \div total

StatCols == <<"Category", "TotalCount", "SurvivedCount", "SurvivalRate">>

StatRow(cat, total, survived, rate) ==
  [Category |-> cat, TotalCount |-> I(total), SurvivedCount |-> I(survived),
   SurvivalRate |-> F(rate)]

OverallStats(data) ==
  LET total_count == Len(data.rows)
      survived_count == Cardinality(SurvivedRows(data.rows, DOMAIN data.rows))
      survival_rate == IF total_count > 0 THEN Rate(survived_count, total_count)
                       ELSE 0
  IN Table(StatCols,
           <<StatRow(S(sOverall), total_count, survived_count, survival_rate)>>)

GroupStat(rows, g, key) ==
  LET grp == GroupRows(rows, g, key)
      total == Cardinality(grp)
      survived == Cardinality(SurvivedRows(rows, grp))
  IN StatRow(key, total, survived, Rate(survived, total))

GroupedStats(data, g) ==
  LET cats == SortKeys(GroupKeys(data.rows, g))
  IN Table(StatCols, [i \in DOMAIN cats |-> GroupStat(data.rows, g, cats[i])])

CalculateSurvivalRateOf(data, g) ==
  IF g = NoGroup THEN OverallStats(data) ELSE GroupedStats(data, g)

(* ------------------------- load_titanic_data -------------------------- *)
\* the default of delay_seconds
DefaultDelay == 5

\* an exception is its type and the pieces of its message, in order; here the
\* absent file raised as a load error
NotFoundAsLoadError(path) ==
  [type |-> "RuntimeError", msg |-> <<"Error loading Titanic data from ", path>>]

\* raise FileNotFoundError(f"Titanic data file not found: {csv_path}")
NotFoundError(path) ==
  [type |-> "FileNotFoundError", msg |-> <<"Titanic data file not found: ", path>>]

\* raise RuntimeError(f"Error loading Titanic data from {csv_path}: {str(e)}")
LoadError(path, cause) ==
  [type |-> "RuntimeError",
   msg |-> <<"Error loading Titanic data from ", path, ": ", cause>>]

NoError == [type |-> "none", msg |-> <<>>]

\* no call of load_titanic_data, of the beer model, of create_boxplot
NoLoad == [at |-> "idle"]
NoBeer == [at |-> "idle"]
NoChart == [at |-> "idle"]

(* --------------------------- create_boxplot --------------------------- *)
\* the columns px.strip is asked to show on hover
HoverColumns == {"Name", "Sex", "Age", "Pclass", "Embarked"}

\* a filter that lets the rows without an outcome through
CleanDataKeepNullSurvived(data, x_axis, y_axis) ==
  Table(data.cols,
        SelectRows(data.rows,
                   {i \in DOMAIN data.rows :
                      /\ ~IsNull(data.rows[i][y_axis])
                      /\ ~IsNull(data.rows[i][x_axis])}))

CleanData(data, x_axis, y_axis) ==
  Table(data.cols,
        SelectRows(data.rows,
                   {i \in DOMAIN data.rows :
                      /\ ~IsNull(data.rows[i][y_axis])
                      /\ ~IsNull(data.rows[i][x_axis])
                      /\ ~IsNull(data.rows[i].Survived)}))

\* dict(zip(Category, TotalCount))
CategoryCounts(survival_stats) ==
  LET st == survival_stats.rows
  IN [c \in {st[k].Category : k \in DOMAIN st} |->
        st[CHOOSE k \in DOMAIN st : st[k].Category = c].TotalCount.v]

\* dict(zip(Category, SurvivalRate)): the float64 SurvivedCount / TotalCount *
\* 100 of a category, kept as the quotient it is
SurvivalRates(survival_stats) ==
  LET st == survival_stats.rows
      Row(c) == st[CHOOSE k \in DOMAIN st : st[k].Category = c]
  IN [c \in {st[k].Category : k \in DOMAIN st} |->
        <<Row(c).SurvivedCount.v * 100, Row(c).TotalCount.v>>]

\* f"{rate:.1f}": the nearest tenth of the quotient
Format1f(q) == FormatF64((2 * Unit * q[1] + q[2]) \div (2 * q[2]))

\* f"{cat}<br>(n={category_counts[cat]}, s={survival_rates[cat]:.1f}%)"
TickLabel(cat, count, rate) ==
  CastStr(cat).v \o <<"<br>(n=">> \o DecStr(count) \o <<", s=">>
    \o Format1f(rate) \o <<"%)">>

\* clean_data[x_axis].unique().sort().to_list()
UniqueCategories(clean_data, x_axis) ==
  SortKeys({clean_data.rows[i][x_axis] : i \in DOMAIN clean_data.rows})

(* ----------------------------- beer model ----------------------------- *)
\* a numpy float64: a finite value in thousandths, inf or nan (the model's
\* arguments are never negative, so -inf does not arise)
Milli == 1000
Fin(v) == [k |-> "fin", v |-> v]
Inf == [k |-> "inf"]
NaN == [k |-> "nan"]
IsFinite(a) == a.k = "fin"

\* a + b, a * b and a / b as IEEE 754 computes them; numpy's division of a
\* float64 by 0.0 warns and yields inf (nan for 0.0 / 0.0), it does not raise
FAdd(a, b) ==
  IF a.k = "nan" \/ b.k = "nan" THEN NaN
  ELSE IF a.k = "inf" \/ b.k = "inf" THEN Inf
  ELSE Fin(a.v + b.v)

FMul(a, b) ==
  IF a.k = "nan" \/ b.k = "nan" THEN NaN
  ELSE IF a.k = "inf" THEN (IF b.k = "fin" /\ b.v = 0 THEN NaN ELSE Inf)
  ELSE IF b.k = "inf" THEN (IF a.v = 0 THEN NaN ELSE Inf)
  ELSE Fin((a.v * b.v) \div Milli)

FDiv(a, b) ==
  IF a.k = "nan" \/ b.k = "nan" THEN NaN
  ELSE IF b.k = "inf" THEN (IF a.k = "inf" THEN NaN ELSE Fin(0))
  ELSE IF a.k = "inf" THEN Inf
  ELSE IF b.v = 0 THEN (IF a.v = 0 THEN NaN ELSE Inf)
  ELSE Fin((a.v * Milli) \div b.v)

\* np.log of the whole numbers 1..4, in thousandths
Log(n) == Fin(<<0, 693, 1099, 1386>>[n])

\* the number of people per unit of the crowd scale
CrowdScale == 50

base_mu == Fin(Milli)
base_sigma == Fin(500)

calculate_parameters(num_people, number_of_bar_staff) ==
  LET crowd_factor == Log(1 + num_people \div CrowdScale)
      staff_effect == Log(1 + number_of_bar_staff)
      staff_factor == FDiv(Fin(Milli), staff_effect)
  IN [mu |-> FAdd(base_mu, FMul(FMul(crowd_factor, Fin(800)), staff_factor)),
      sigma |-> FAdd(base_sigma, FMul(FMul(crowd_factor, Fin(300)), staff_factor))]

(* ------------------------------ actions ------------------------------- *)
NoStats == Table(<<>>, <<>>)
Aggregate == 17     \* the position of the call of calculate_survival_rate
Done == 18
LoadUnit == 19      \* load_titanic_data called
BeerUnit == 20      \* generate_wait_times called
BoxplotUnit == 21   \* create_boxplot called on a table of its own

\* a stage that hands its table on untouched when a column it reads is absent
StageSkipping(k, needs, outs) ==
  /\ IF HasCols(table, needs)
       THEN \E o \in outs : table' = o
       ELSE table' = table
  /\ err' = err
  /\ pc' = IF unit = k THEN Done ELSE k + 1
  /\ UNCHANGED <<raw, unit, stats, groupBy, load, beer, chart>>

\* one stage: it raises when a column it reads is absent, otherwise it hands
\* its result to the next stage (or returns it, when it was called alone)
Stage(k, needs, outs) ==
  /\ IF HasCols(table, needs)
       THEN /\ \E o \in outs : table' = o
            /\ err' = err
            /\ pc' = IF unit = k THEN Done ELSE k + 1
       ELSE /\ table' = table
            /\ err' = "ColumnNotFoundError"
            /\ pc' = Done
  /\ UNCHANGED <<raw, unit, stats, groupBy, load, beer, chart>>

CoerceNumericColumns ==
  /\ pc = 1
  /\ Stage(1, NumericColumns, {CoerceNumericColumnsOf(table)})

FillnaCabin ==
  /\ pc = 2
  /\ Stage(2, {"Cabin"}, {FillnaCabinOf(table)})

FillnaFare ==
  /\ pc = 3
  /\ Stage(3, {"Fare"}, {FillnaFareOf(table)})

FillnaEmbarked ==
  /\ pc = 4
  /\ Stage(4, {"Embarked"}, {FillnaEmbarkedOf(table)})

ExtractTitleFromName ==
  /\ pc = 5
  /\ Stage(5, {"Name"}, {ExtractTitleFromNameOf(table)})

ConsolidateTitles ==
  /\ pc = 6
  /\ Stage(6, {"Title"},
           {ConsolidateTitlesOf(table, nulls_equal) : nulls_equal \in BOOLEAN})

AddCabinOccupancy ==
  /\ pc = 7
  /\ Stage(7, {"Cabin"}, AddCabinOccupancyOf(table))

AddTicketSharingCount ==
  /\ pc = 8
  /\ Stage(8, {"Ticket"}, AddTicketSharingCountOf(table))

ExtractCabinLevel ==
  /\ pc = 9
  /\ Stage(9, {"Cabin"}, {ExtractCabinLevelOf(table)})

AddLog10OfFare ==
  /\ pc = 10
  /\ Stage(10, {"Fare"}, {AddLog10OfFareOf(table)})

ImputeMissingAgeBasedOnTitle ==
  /\ pc = 11
  /\ Stage(11, {"Title", "Age"}, ImputeMissingAgeBasedOnTitleOf(table))

CalculateDecadeFromAge ==
  /\ pc = 12
  /\ Stage(12, {"Age"}, {CalculateDecadeFromAgeOf(table)})

ResolveLevelT ==
  /\ pc = 13
  /\ Stage(13, {"Level"}, {ResolveLevelTOf(table)})

ConvertFloatToInt ==
  /\ pc = 14
  /\ IF ~HasCols(table, ColumnsToConvert)
       THEN table' = table /\ err' = "ColumnNotFoundError" /\ pc' = Done
     ELSE IF CastI32Fails(table)
       THEN table' = table /\ err' = "InvalidOperationError" /\ pc' = Done
     ELSE /\ table' = ConvertFloatToIntOf(table)
          /\ err' = err
          /\ pc' = IF unit = 14 THEN Done ELSE 15
  /\ UNCHANGED <<raw, unit, stats, groupBy, load, beer, chart>>

ConvertSurvivedToString ==
  /\ pc = 15
  /\ Stage(15, {"Survived"}, {ConvertSurvivedToStringOf(table)})

ConvertEmbarkedToLocationNames ==
  /\ pc = 16
  /\ Stage(16, {"Embarked"}, {ConvertEmbarkedToLocationNamesOf(table)})

\* the columns the application groups by (app/titanic_app.py)
GroupChoices == {"Sex", "Pclass", "Title"}

CalculateSurvivalRate ==
  /\ pc = Aggregate
  /\ \E g \in {NoGroup} \cup (GroupChoices \cap Range(table.cols)) :
       /\ groupBy' = g
       /\ stats' = CalculateSurvivalRateOf(table, g)
  /\ pc' = Done
  /\ UNCHANGED <<raw, table, unit, err, load, beer, chart>>

\* the pairs of x_axis and y_axis the application charts
AxisChoices == {<<"Sex", "Age">>, <<"Pclass", "FareLog10">>, <<"Title", "Age">>}

\* create_boxplot(data, x_axis, y_axis) on the prepared table, or on a table
\* of its own
CreateBoxplot ==
  /\ \/ unit = 0 /\ pc = Aggregate
     \/ unit = BoxplotUnit /\ pc = BoxplotUnit
  /\ \E a \in AxisChoices :
       LET x_axis == a[1]
           y_axis == a[2]
           clean_data == CleanData(table, x_axis, y_axis)
           survival_stats == CalculateSurvivalRateOf(clean_data, x_axis)
           category_counts == CategoryCounts(survival_stats)
           survival_rates == SurvivalRates(survival_stats)
           unique_categories == UniqueCategories(clean_data, x_axis)
       IN IF ~HasCols(table, {x_axis, y_axis, "Survived"})
            THEN err' = "ColumnNotFoundError" /\ chart' = chart
          ELSE IF ~HasCols(table, HoverColumns)
            THEN err' = "ValueError" /\ chart' = chart
          ELSE IF \E k \in DOMAIN unique_categories :
                    \/ unique_categories[k] \notin DOMAIN category_counts
                    \/ unique_categories[k] \notin DOMAIN survival_rates
            THEN err' = "KeyError" /\ chart' = chart
          ELSE /\ err' = err
               /\ chart' =
                    [at |-> "returned", x_axis |-> x_axis, y_axis |-> y_axis,
                     clean_data |-> clean_data,
                     category_counts |-> category_counts,
                     survival_rates |-> survival_rates,
                     tick_labels |->
                       [k \in DOMAIN unique_categories |->
                          TickLabel(unique_categories[k],
                                    category_counts[unique_categories[k]],
                                    survival_rates[unique_categories[k]])]]
  /\ pc' = Done
  /\ UNCHANGED <<raw, table, unit, stats, groupBy, load, beer>>

\* time.sleep(delay_seconds)
LoadSleep ==
  /\ pc = LoadUnit /\ load.at = "sleep"
  /\ load' = [load EXCEPT !.at = "exists", !.elapsed = load.delay_seconds]
  /\ UNCHANGED <<raw, table, pc, unit, err, stats, groupBy, beer, chart>>

\* if not csv_path.exists(): raise FileNotFoundError
LoadCheckExists ==
  /\ pc = LoadUnit /\ load.at = "exists"
  /\ IF load.file.exists
       THEN /\ load' = [load EXCEPT !.at = "read"]
            /\ UNCHANGED <<pc, err>>
       ELSE /\ load' = [load EXCEPT !.at = "raised",
                                    !.error = NotFoundError(load.data_path)]
            /\ err' = NotFoundError(load.data_path).type
            /\ pc' = Done
  /\ UNCHANGED <<raw, table, unit, stats, groupBy, beer, chart>>

\* try: return pl.read_csv(csv_path) / except Exception as e: raise RuntimeError
LoadReadCsv ==
  /\ pc = LoadUnit /\ load.at = "read"
  /\ IF load.file.cause = "none"
       THEN /\ load' = [load EXCEPT !.at = "returned", !.df = <<load.file.content>>]
            /\ err' = err
       ELSE /\ load' = [load EXCEPT !.at = "raised",
                                    !.error = LoadError(load.data_path, load.file.cause)]
            /\ err' = LoadError(load.data_path, load.file.cause).type
  /\ pc' = Done
  /\ UNCHANGED <<raw, table, unit, stats, groupBy, beer, chart>>

\* generate_wait_times up to its call of calculate_parameters
BeerCalculateParameters ==
  /\ pc = BeerUnit /\ beer.at = "parameters"
  /\ LET p == calculate_parameters(beer.num_people, beer.number_of_bar_staff)
     IN beer' = [beer EXCEPT !.at = "draw", !.mu = p.mu, !.sigma = p.sigma,
                             !.seeded = (beer.random_seed # "None")]
  /\ UNCHANGED <<raw, table, pc, unit, err, stats, groupBy, load, chart>>

\* np.random.lognormal(mu, sigma, num_people) and the table of its samples:
\* one row per attendee, drawn from the parameters whatever they are
BeerGenerateWaitTimes ==
  /\ pc = BeerUnit /\ beer.at = "draw"
  /\ beer' = [beer EXCEPT !.at = "returned",
                          !.attendee_id = [i \in 1..beer.num_people |-> i],
                          !.drawn_from = <<beer.mu, beer.sigma>>]
  /\ pc' = Done
  /\ UNCHANGED <<raw, table, unit, err, stats, groupBy, load, chart>>

Next ==
  \/ CoerceNumericColumns
  \/ FillnaCabin
  \/ FillnaFare
  \/ FillnaEmbarked
  \/ ExtractTitleFromName
  \/ ConsolidateTitles
  \/ AddCabinOccupancy
  \/ AddTicketSharingCount
  \/ ExtractCabinLevel
  \/ AddLog10OfFare
  \/ ImputeMissingAgeBasedOnTitle
  \/ CalculateDecadeFromAge
  \/ ResolveLevelT
  \/ ConvertFloatToInt
  \/ ConvertSurvivedToString
  \/ ConvertEmbarkedToLocationNames
  \/ CalculateSurvivalRate
  \/ CreateBoxplot
  \/ LoadSleep
  \/ LoadCheckExists
  \/ LoadReadCsv
  \/ BeerCalculateParameters
  \/ BeerGenerateWaitTimes

(* ------------------------ inputs of prepare_data ---------------------- *)
RawCols == <<"PassengerId", "Survived", "Pclass", "Name", "Sex", "Age", "SibSp",
             "Parch", "Ticket", "Fare", "Cabin", "Embarked">>

nameMr == <<"B", ",", " ", "M", "r", ".", " ", "O">>
nameDr == <<"S", ",", " ", "D", "r", ".", " ", "J">>
nameBad == <<"X", " ", "Y">>
sMr == <<"M", "r">>
sDr == <<"D", "r">>
tA == <<"A", "1">>
tB == <<"B", "2">>
cC85 == <<"C", "8", "5">>
cT == <<"T">>

\* a well-formed row (without its PassengerId)
DefaultCells ==
  [Survived |-> I(0), Pclass |-> I(3), Name |-> S(nameMr),
   Sex |-> S(<<"m">>), Age |-> F(220), SibSp |-> I(0), Parch |-> I(0),
   Ticket |-> S(tA), Fare |-> S(<<"1", "0">>), Cabin |-> S(cC85),
   Embarked |-> S(<<"C">>)]

\* each input varies one group of columns and keeps the others well-formed
WhoCells ==
  {[DefaultCells EXCEPT !.Name = n, !.Age = a, !.Ticket = k] :
     n \in {S(nameMr), S(nameDr), S(nameBad)},
     a \in {Null, F(45)},
     k \in {S(tB), Null}}

WhereCells ==
  {[DefaultCells EXCEPT !.Cabin = c, !.Fare = f,
                        !.Embarked = IF IsNull(c) THEN Null ELSE S(<<"Q">>)] :
     c \in {Null, S(cC85), S(cT)},
     f \in {Null, S(<<"1", "0">>), S(<<"x">>)}}

OutcomeCells ==
  {[DefaultCells EXCEPT !.Survived = s, !.Pclass = p] :
     s \in {I(1), I(0), Null},
     p \in {I(1), I(3)}}

SeqsUpTo(R, n) == UNION {[1..m -> R] : m \in 0..n}

\* the rows get their PassengerId from their position
Numbered(cells) ==
  [i \in DOMAIN cells |-> WithCell(cells[i], "PassengerId", I(i))]

\* bad values: a file whose Pclass and Survived columns were read as text, with
\* a Pclass that is no number or is missing, and a port code nobody knows
TextCells ==
  {[DefaultCells EXCEPT !.Pclass = p, !.Survived = s,
                        !.Embarked = IF s = S(<<"x">>) THEN S(<<"X">>) ELSE S(<<"C">>)] :
     p \in {S(<<"1">>), S(<<"x">>), Null}, s \in {S(<<"1">>), S(<<"x">>)}}

\* a one-row table that lacks one of the raw columns
IncompleteTables ==
  {DropCol(Table(RawCols, Numbered(<<DefaultCells>>)), c) : c \in Range(RawCols)}

\* the rows that vary in an input of prepare_data: up to MaxRows rows that
\* differ in one group of columns
FocusRows ==
  SeqsUpTo(WhoCells, MaxRows) \cup SeqsUpTo(WhereCells, MaxRows)
    \cup SeqsUpTo(OutcomeCells, MaxRows)

\* prepare_data(raw), followed by the aggregation of its result
InitPrepare ==
  /\ \/ \E b \in {0, BulkRows} : \E v \in FocusRows :
          raw = Table(RawCols, Numbered([i \in 1..b |-> DefaultCells] \o v))
     \/ \E v \in SeqsUpTo(TextCells, MaxRows) : raw = Table(RawCols, Numbered(v))
     \/ raw \in IncompleteTables
  /\ table = raw
  /\ pc = 1
  /\ unit = 0
  /\ err = "none"
  /\ stats = NoStats
  /\ groupBy = NoGroup
  /\ load = NoLoad
  /\ beer = NoBeer
  /\ chart = NoChart

(* ------------------- inputs of one stage called alone ---------------- *)
\* the tables of one column c with at most n rows of values from V
OneCol(c, V, n) ==
  {Table(<<c>>, rows) : rows \in SeqsUpTo({[k \in {c} |-> x] : x \in V}, n)}

cA1 == <<"A", "1">>
cB2 == <<"B", "2">>
cC3 == <<"C", "3">>

UnitTables(k) ==
  CASE k = 1 ->
         {Table(<<"PassengerId", "Survived", "Age", "SibSp", "Parch", "Fare",
                  "Name">>, rows) :
            rows \in SeqsUpTo(
              {[PassengerId |-> S(<<"1">>), Survived |-> s, Age |-> a,
                SibSp |-> I(1), Parch |-> S(<<"0">>), Fare |-> f,
                Name |-> S(nameBad)] :
                 s \in {S(<<"1">>), S(<<"0">>)},
                 a \in {S(<<"2", "2", ".", "5">>), S(<<"x">>)},
                 f \in {S(<<"1", "0">>), Null}}, MaxUnitRows)}
    [] k = 2 -> OneCol("Cabin", {Null, S(cC85), S(cA1)}, MaxUnitRows)
    [] k = 3 -> OneCol("Fare", {Null, F(10), F(0)}, MaxUnitRows)
    [] k = 4 -> OneCol("Embarked", {Null, S(<<"S">>), S(<<"C">>)}, MaxUnitRows)
    [] k = 5 -> OneCol("Name", {Null, S(nameMr), S(nameDr), S(nameBad)}, MaxUnitRows)
    [] k = 6 -> OneCol("Title", {Null, S(sMr), S(sDr), S(sOther)}, MaxTitleRows)
    [] k = 7 -> OneCol("Cabin", {S(cA1), S(cB2), S(cC3), S(sNone)}, MaxUnitRows)
    [] k = 8 -> OneCol("Ticket", {S(tA), S(tB), S(cC3), Null}, MaxUnitRows)
    [] k = 9 -> OneCol("Cabin", {S(cC85), S(cT), S(sNone), Null}, MaxUnitRows)
    [] k = 10 -> OneCol("Fare", {F(10), F(100), F(1), F(0), F(-50), Null}, MaxUnitRows)
    [] k = 11 ->
         {Table(<<"Age", "Title">>, rows) :
            rows \in SeqsUpTo({[Age |-> a, Title |-> x] :
                                 a \in {Null, F(45), F(300)},
                                 x \in {S(sMr), S(sDr), Null}}, MaxUnitRows)}
    [] k = 12 ->
         {Table(<<"PassengerId", "Age">>, Numbered(rows)) :
            rows \in SeqsUpTo({[Age |-> a] :
                                 a \in {Null, F(0), F(99), F(100), F(199), F(200)}},
                              MaxUnitRows)}
    [] k = 13 -> OneCol("Level", {Null, S(cT), S(<<"C">>), S(<<"N">>)}, MaxUnitRows)
    [] k = 14 ->
         {Table(<<"AgeInDecades", "Pclass">>, rows) :
            rows \in SeqsUpTo({[AgeInDecades |-> a, Pclass |-> x] :
                                 a \in {Null, F(20)},
                                 x \in {I(1), I(3)}}, MaxUnitRows)}
    [] k = 15 -> OneCol("Survived", {F(10), F(0), F(20), Null}, MaxUnitRows)
    [] k = 16 ->
         OneCol("Embarked", {S(<<"S">>), S(<<"C">>), S(<<"Q">>), Null, S(<<"X">>)},
                MaxUnitRows)
    [] k = 17 ->
         {Table(<<"Survived", "Pclass">>, rows) :
            rows \in SeqsUpTo({[Survived |-> s, Pclass |-> x] :
                                 s \in {S(sSurvived), S(sDied), Null},
                                 x \in {I(1), I(2), Null}}, MaxRateRows)}

\* a table without the column the stage reads: PassengerId and Name alone for
\* _calculate_decade_from_age, Sex alone for the other stages
LackingTables(k) ==
  IF k = 12
    THEN {Table(<<"PassengerId", "Name">>, Numbered(<<[Name |-> S(nameMr)]>>))}
  ELSE IF k < Aggregate
    THEN {Table(<<"Sex">>, <<[Sex |-> S(<<"m">>)]>>)}
  ELSE {}

\* one stage (or calculate_survival_rate) called on a table of its own
InitUnit ==
  /\ unit \in 1..Aggregate
  /\ raw \in UnitTables(unit) \cup LackingTables(unit)
  /\ table = raw
  /\ pc = unit
  /\ err = "none"
  /\ stats = NoStats
  /\ groupBy = NoGroup
  /\ load = NoLoad
  /\ beer = NoBeer
  /\ chart = NoChart

\* the paths and what is found there: nothing, a file that is no CSV (two
\* ways for read_csv to fail), a CSV file
DataPaths == {"data/input/titanic_passengers.csv", "nonexistent/file.csv"}

Files ==
  {[exists |-> FALSE, cause |-> "none", content |-> NoStats]}
    \cup {[exists |-> TRUE, cause |-> c, content |-> NoStats] :
            c \in {"ComputeError", "NoDataError"}}
    \cup {[exists |-> TRUE, cause |-> "none",
           content |-> Table(RawCols, Numbered(<<DefaultCells>>))]}

\* load_titanic_data(data_path, delay_seconds)
InitLoad ==
  /\ unit = LoadUnit
  /\ pc = LoadUnit
  /\ raw = NoStats
  /\ table = raw
  /\ err = "none"
  /\ stats = NoStats
  /\ groupBy = NoGroup
  /\ load \in {[at |-> "sleep", data_path |-> d, file |-> f, delay_seconds |-> n,
                 elapsed |-> 0, error |-> NoError, df |-> <<>>] :
                d \in DataPaths, f \in Files, n \in {0, 1, DefaultDelay}}
  /\ beer = NoBeer
  /\ chart = NoChart

\* generate_wait_times(num_people, number_of_bar_staff, random_seed)
InitBeer ==
  /\ unit = BeerUnit
  /\ pc = BeerUnit
  /\ raw = NoStats
  /\ table = raw
  /\ err = "none"
  /\ stats = NoStats
  /\ groupBy = NoGroup
  /\ load = NoLoad
  /\ beer \in {[at |-> "parameters", num_people |-> n, number_of_bar_staff |-> b,
                 random_seed |-> r, seeded |-> FALSE, mu |-> Fin(0), sigma |-> Fin(0),
                 attendee_id |-> <<>>, drawn_from |-> <<>>] :
                n \in {0, CrowdScale, 2 * CrowdScale}, b \in 0..3,
                r \in {"None", "42"}}
  /\ chart = NoChart

\* tables for a chart: the columns shown on hover and Survived, with rows of
\* either sex and outcome or none, and a row without an age
ChartCols == <<"Name", "Sex", "Age", "Pclass", "Embarked", "Survived">>

ChartCells ==
  LET Cell(x, a, o) ==
        [Name |-> S(nameMr), Sex |-> x, Age |-> a, Pclass |-> I(3),
         Embarked |-> S(sSouthampton), Survived |-> o]
  IN {Cell(x, F(220), o) : x \in {S(<<"f">>), S(<<"m">>), Null},
                           o \in {S(sSurvived), S(sDied), Null}}
       \cup {Cell(S(<<"f">>), Null, S(sSurvived))}

\* create_boxplot(data, x_axis, y_axis)
InitBoxplot ==
  /\ unit = BoxplotUnit
  /\ pc = BoxplotUnit
  /\ raw \in {Table(ChartCols, rows) : rows \in SeqsUpTo(ChartCells, MaxUnitRows)}
  /\ table = raw
  /\ err = "none"
  /\ stats = NoStats
  /\ groupBy = NoGroup
  /\ load = NoLoad
  /\ beer = NoBeer
  /\ chart = NoChart

Init == InitPrepare \/ InitUnit \/ InitLoad \/ InitBeer \/ InitBoxplot

Spec == Init /\ [][Next]_vars

(* ------------------------------ properties ---------------------------- *)
\* prepare_data has returned its table
Returned == unit = 0 /\ pc >= Aggregate /\ err = "none"

\* the input row an output row of prepare_data comes from
RawRowOf(r) ==
  raw.rows[IF r.PassengerId.t = "f64" THEN r.PassengerId.v \div Unit
           ELSE r.PassengerId.v]

\* C1: prepare_data returns exactly as many rows as it was given, for every
\* input table, also with a null Ticket or a Name without a title.
C1_RowCountPreserved == Returned => Len(table.rows) = Len(raw.rows)

\* C2: after prepare_data no row has a null Age, also when a whole Title
\* group has no known age.
C2_AgeNeverNull == Returned => \A i \in DOMAIN table.rows : ~IsNull(table.rows[i].Age)

\* C3: from its fill stage on, Cabin, Fare and Embarked hold no null in any
\* row of the pipeline's table: a null Cabin is "None", a Fare that was null
\* or not a number is 0.0, a null Embarked is "S" and in the end
\* "Southampton".
C3_FilledColumnsNeverNull ==
  unit = 0 /\ err = "none" =>
    \A i \in DOMAIN table.rows :
      LET r == table.rows[i]
          o == RawRowOf(r)
      IN /\ pc > 2 => /\ ~IsNull(r.Cabin)
                      /\ IsNull(o.Cabin) => r.Cabin = S(sNone)
         /\ pc > 3 => /\ ~IsNull(r.Fare)
                      /\ IsNull(CastF64(o.Fare)) => r.Fare = F(0)
         /\ pc > 4 => /\ ~IsNull(r.Embarked)
                      /\ IsNull(o.Embarked) =>
                           r.Embarked = IF pc > 16 THEN S(sSouthampton)
                                        ELSE S(<<"S">>)

\* a returned row that came in with no Cabin, a Fare that is no number and no
\* port, next to one that came in with no Fare at all
C3_Witness ==
  /\ Returned
  /\ \E i, j \in DOMAIN table.rows :
       LET o == RawRowOf(table.rows[i])
       IN /\ IsNull(o.Cabin) /\ o.Fare = S(<<"x">>) /\ IsNull(o.Embarked)
          /\ IsNull(RawRowOf(table.rows[j]).Fare)
          /\ table.rows[i].Cabin = S(sNone)
          /\ table.rows[i].Fare = F(0)
          /\ table.rows[j].Fare = F(0)
          /\ table.rows[i].Embarked = S(sSouthampton)

\* stage k, called alone on the table raw, has returned the table
Called(k) == unit = k /\ pc = Done /\ err = "none"

\* the number of input rows that carry the Title x
TitleRows(x) == Cardinality({j \in DOMAIN raw.rows : raw.rows[j].Title = x})

OtherRowsOut ==
  Cardinality({i \in DOMAIN table.rows : table.rows[i].Title = S(sOther)})

\* every rare title is rewritten to "Other", every other row keeps its Title
C4_Rewritten ==
  /\ Len(table.rows) = Len(raw.rows)
  /\ \A i \in DOMAIN raw.rows :
       LET x == raw.rows[i].Title
       IN /\ (~IsNull(x) /\ TitleRows(x) < 5) => table.rows[i].Title = S(sOther)
          /\ TitleRows(x) >= 5 => table.rows[i].Title = x

\* C4 as stated: rare titles become "Other", titles of 5 or more rows stay,
\* and the output has as many "Other" rows as the input had rows with a rare
\* title.
C4_OtherCountIsRareCount ==
  Called(6) =>
    /\ C4_Rewritten
    /\ OtherRowsOut =
         Cardinality({i \in DOMAIN raw.rows :
                        ~IsNull(raw.rows[i].Title)
                        /\ TitleRows(raw.rows[i].Title) < 5})

\* the rows that had a Title and have the title "Other" in the output
TitledOtherRowsOut ==
  Cardinality({i \in DOMAIN table.rows :
                 ~IsNull(raw.rows[i].Title) /\ table.rows[i].Title = S(sOther)})

\* C4 amended: rare titles become "Other", titles of 5 or more rows stay, and
\* of the rows that have a Title, the "Other" rows of the output are the rows
\* that had a rare title or had the title "Other" already.
C4_ConsolidateTitles ==
  Called(6) =>
    /\ C4_Rewritten
    /\ TitledOtherRowsOut =
         Cardinality({i \in DOMAIN raw.rows :
                        /\ ~IsNull(raw.rows[i].Title)
                        /\ \/ TitleRows(raw.rows[i].Title) < 5
                           \/ raw.rows[i].Title = S(sOther)})

\* five rows titled Mr, kept at the boundary, next to one rare title
C4_Witness ==
  /\ Called(6)
  /\ TitleRows(S(sMr)) = 5
  /\ TitleRows(S(sDr)) = 1
  /\ OtherRowsOut = 1
  /\ \E i \in DOMAIN table.rows : table.rows[i].Title = S(sMr)

\* the rows of the input that share the value of column c of row i
Sharing(c, i) ==
  Cardinality({j \in DOMAIN raw.rows : raw.rows[j][c] = raw.rows[i][c]})

\* C5: _add_cabin_occupancy returns the rows in the input order, each with the
\* number of rows sharing its Cabin, and 0 for the sentinel "None"; the
\* occupancy is 0 exactly for sentinel rows.
C5_CabinOccupancyInOrder ==
  Called(7) =>
    /\ Len(table.rows) = Len(raw.rows)
    /\ \A i \in DOMAIN raw.rows :
         /\ table.rows[i].Cabin = raw.rows[i].Cabin
         /\ table.rows[i].CabinOccupancy =
              IF raw.rows[i].Cabin = S(sNone) THEN I(0) ELSE I(Sharing("Cabin", i))
         /\ table.rows[i].CabinOccupancy.v = 0 <=> raw.rows[i].Cabin = S(sNone)

\* C6: _add_ticket_sharing_count returns the rows in the input order, each with
\* the number of rows sharing its Ticket, which is at least 1 and the same for
\* equal tickets.
C6_TicketShareCountInOrder ==
  Called(8) =>
    /\ Len(table.rows) = Len(raw.rows)
    /\ \A i \in DOMAIN raw.rows :
         /\ table.rows[i].Ticket = raw.rows[i].Ticket
         /\ table.rows[i].TicketShareCount = I(Sharing("Ticket", i))
         /\ table.rows[i].TicketShareCount.v >= 1
    /\ \A i, j \in DOMAIN table.rows :
         table.rows[i].Ticket = table.rows[j].Ticket =>
           table.rows[i].TicketShareCount = table.rows[j].TicketShareCount

\* the outcome of prepare_data on a table whose Survived values are all 0 or 1
C7_PreparedOutcomes ==
  (Returned /\ \A j \in DOMAIN raw.rows : raw.rows[j].Survived \in {I(0), I(1)})
    => \A i \in DOMAIN table.rows :
         table.rows[i].Survived \in {S(sSurvived), S(sDied)}

\* C7 as stated: 1 becomes "Survived", 0 becomes "Died", null stays null and
\* any other value comes out unchanged.
C7_OtherValueUnchanged ==
  /\ Called(15) =>
       /\ Len(table.rows) = Len(raw.rows)
       /\ \A i \in DOMAIN raw.rows :
            LET x == raw.rows[i].Survived
                y == table.rows[i].Survived
            IN y = CASE x = F(1 * Unit) -> S(sSurvived)
                     [] x = F(0) -> S(sDied)
                     [] OTHER -> x
  /\ C7_PreparedOutcomes

\* C7 amended: 1 becomes "Survived", 0 becomes "Died", null stays null and any
\* other number comes out as the text of that number (2.0 as "2.0"), the
\* column being a string column.
C7_ConvertSurvivedToString ==
  /\ Called(15) =>
       /\ Len(table.rows) = Len(raw.rows)
       /\ \A i \in DOMAIN raw.rows :
            LET x == raw.rows[i].Survived
                y == table.rows[i].Survived
            IN CASE x = F(1 * Unit) -> y = S(sSurvived)
                 [] x = F(0) -> y = S(sDied)
                 [] IsNull(x) -> IsNull(y)
                 [] OTHER -> /\ IsStr(y)
                             /\ y \notin {S(sSurvived), S(sDied)}
                             /\ ParseF64(y.v) = x
  /\ C7_PreparedOutcomes

\* a table with a 1, a null and a 2
C7_Witness ==
  /\ Called(15)
  /\ \E i, j, k \in DOMAIN raw.rows :
       /\ raw.rows[i].Survived = F(1 * Unit) /\ table.rows[i].Survived = S(sSurvived)
       /\ IsNull(raw.rows[j].Survived) /\ IsNull(table.rows[j].Survived)
       /\ raw.rows[k].Survived = F(2 * Unit)
       /\ table.rows[k].Survived = S(<<"2", ".", "0">>)

\* calculate_survival_rate has returned stats for the table
Aggregated == pc = Done /\ unit \in {0, Aggregate} /\ stats # NoStats

\* the rows of the aggregated table in the category cat (all rows when the
\* call had no group_by_column)
InCategory(cat) ==
  IF groupBy = NoGroup THEN DOMAIN table.rows
  ELSE {i \in DOMAIN table.rows : table.rows[i][groupBy] = cat}

Survivors(cat) ==
  {i \in InCategory(cat) : table.rows[i].Survived = S(sSurvived)}

RECURSIVE SumTotalCount(_)
SumTotalCount(st) ==
  IF st = <<>> THEN 0 ELSE Head(st).TotalCount.v + SumTotalCount(Tail(st))

\* rate is survived / total * 100, to the resolution of the fixed point
IsRate(rate, survived, total) ==
  /\ rate.t = "f64"
  /\ rate.v * total <= survived * 100 * Unit
  /\ survived * 100 * Unit < (rate.v + 1) * total

\* C8: with a group_by_column the result has one row per distinct value of
\* the column, ascending; TotalCount and SurvivedCount count the group and
\* its "Survived" rows, 0 <= SurvivedCount <= TotalCount, SurvivalRate is
\* SurvivedCount / TotalCount * 100, and the TotalCounts add up to the rows.
C8_GroupedSurvivalRate ==
  (Aggregated /\ groupBy # NoGroup) =>
    LET st == stats.rows
    IN /\ {st[k].Category : k \in DOMAIN st}
            = {table.rows[i][groupBy] : i \in DOMAIN table.rows}
       /\ \A k \in 1..(Len(st) - 1) : LessVal(st[k].Category, st[k + 1].Category)
       /\ \A k \in DOMAIN st :
            /\ st[k].TotalCount = I(Cardinality(InCategory(st[k].Category)))
            /\ st[k].SurvivedCount = I(Cardinality(Survivors(st[k].Category)))
            /\ 0 <= st[k].SurvivedCount.v
            /\ st[k].SurvivedCount.v <= st[k].TotalCount.v
            /\ IsRate(st[k].SurvivalRate, st[k].SurvivedCount.v, st[k].TotalCount.v)
       /\ SumTotalCount(st) = Len(table.rows)

\* two categories, the null one first, the other with one survivor in two
C8_Witness ==
  /\ Aggregated /\ groupBy = "Pclass"
  /\ Len(stats.rows) = 2
  /\ IsNull(stats.rows[1].Category)
  /\ \E k \in DOMAIN stats.rows :
       /\ stats.rows[k].TotalCount = I(2)
       /\ stats.rows[k].SurvivedCount = I(1)
       /\ stats.rows[k].SurvivalRate = F(50 * Unit)

\* C9: without a group_by_column the result is the one row "Overall" with the
\* number of rows, the number of "Survived" rows and their ratio times 100;
\* an empty table gives 0, 0 and 0.0.
C9_OverallSurvivalRate ==
  (Aggregated /\ groupBy = NoGroup) =>
    /\ Len(stats.rows) = 1
    /\ LET st == stats.rows[1]
           n == Len(table.rows)
       IN /\ st.Category = S(sOverall)
          /\ st.TotalCount = I(n)
          /\ st.SurvivedCount = I(Cardinality(Survivors(Null)))
          /\ IF n = 0
               THEN st.SurvivedCount = I(0) /\ st.SurvivalRate = F(0)
               ELSE IsRate(st.SurvivalRate, st.SurvivedCount.v, n)

\* the empty table, aggregated without a group_by_column
C9_WitnessEmpty ==
  /\ Aggregated /\ groupBy = NoGroup
  /\ table.rows = <<>>
  /\ stats.rows = <<StatRow(S(sOverall), 0, 0, 0)>>

\* C10: a row whose Survived is null, or anything but "Survived", counts in
\* the TotalCount of its group and never in its SurvivedCount; a group of
\* null-Survived rows only has SurvivedCount 0 and SurvivalRate 0.
C10_OnlySurvivedCounts ==
  Aggregated =>
    \A k \in DOMAIN stats.rows :
      LET st == stats.rows[k]
          grp == InCategory(st.Category)
          others == {i \in grp : table.rows[i].Survived # S(sSurvived)}
      IN /\ st.TotalCount.v = Cardinality(grp)
         /\ st.SurvivedCount.v + Cardinality(others) = st.TotalCount.v
         /\ (\A i \in grp : IsNull(table.rows[i].Survived)) =>
              st.SurvivedCount = I(0) /\ st.SurvivalRate = F(0)

\* a group of two rows with null Survived next to a group with a survivor
C10_Witness ==
  /\ Aggregated /\ groupBy = "Pclass"
  /\ \E k, m \in DOMAIN stats.rows :
       /\ InCategory(stats.rows[k].Category) # {}
       /\ \A i \in InCategory(stats.rows[k].Category) :
            IsNull(table.rows[i].Survived)
       /\ stats.rows[k].TotalCount = I(2)
       /\ stats.rows[k].SurvivedCount = I(0)
       /\ stats.rows[m].SurvivedCount = I(1)


\* C11: prepare_data never raises on bad values: whatever the cells of a table
\* with all the raw columns hold (nulls, text that is no number, a Pclass that
\* is no number), every stage hands a table on and prepare_data returns one.
C11_NeverRaisesOnBadValues == (unit = 0 /\ raw.cols = RawCols) => err = "none"


\* C12: _calculate_decade_from_age adds exactly one column, AgeInDecades: the
\* whole number d with 10 d <= Age < 10 (d + 1) where Age is known (0.0 and
\* 9.9 give 0, 10.0 and 19.9 give 1, 20.0 gives 2) and null where Age is
\* null; the rows, their order and every other cell stay as they were.
C12_CalculateDecadeFromAge ==
  Called(12) =>
    /\ table.cols = raw.cols \o <<"AgeInDecades">>
    /\ Len(table.rows) = Len(raw.rows)
    /\ \A i \in DOMAIN table.rows :
         LET r == table.rows[i]
             o == raw.rows[i]
             d == r.AgeInDecades
         IN /\ \A c \in Range(raw.cols) : r[c] = o[c]
            /\ IsNull(o.Age) <=> IsNull(d)
            /\ ~IsNull(o.Age) =>
                 /\ d.v % Unit = 0
                 /\ 10 * d.v <= o.Age.v
                 /\ o.Age.v < 10 * (d.v + Unit)

\* the ages 9.9, 10.0 and unknown came back with the decades 0, 1 and null
C12_Witness ==
  /\ Called(12)
  /\ Len(raw.rows) = 3
  /\ raw.rows[1].Age = F(99) /\ table.rows[1].AgeInDecades = F(0)
  /\ raw.rows[2].Age = F(100) /\ table.rows[2].AgeInDecades = F(Unit)
  /\ IsNull(raw.rows[3].Age) /\ IsNull(table.rows[3].AgeInDecades)


\* ten to the power k, for a natural number k
RECURSIVE TenTo(_)
TenTo(k) == IF k = 0 THEN 1 ELSE 10 * TenTo(k - 1)

\* l is the base-10 logarithm of the positive fare: 10^l = fare
IsLog10(l, fare) ==
  /\ l.v % Unit = 0
  /\ LET e == l.v \div Unit
     IN IF e >= 0 THEN fare.v = Unit * TenTo(e)
        ELSE fare.v * TenTo(0 - e) = Unit

\* C13: _add_log10_of_fare sets FareLog10 to log10(Fare) where Fare > 0 (1
\* gives 0.0, 10 gives 1.0, a fare below 1 a negative value) and to exactly
\* 0.0 where Fare is 0, negative or null: every row has a finite number.
C13_AddLog10OfFare ==
  Called(10) =>
    /\ Len(table.rows) = Len(raw.rows)
    /\ \A i \in DOMAIN table.rows :
         LET fare == raw.rows[i].Fare
             l == table.rows[i].FareLog10
         IN /\ table.rows[i].Fare = fare
            /\ l.t = "f64"
            /\ IF ~IsNull(fare) /\ fare.v > 0
                 THEN /\ IsLog10(l, fare)
                      /\ fare.v < Unit => l.v < 0
                      /\ fare.v = Unit => l.v = 0
                      /\ fare.v = 10 * Unit => l.v = Unit
                 ELSE l.v = 0

\* the fares 0.1, 0.0 and -5.0 came back with the logarithms -1.0, 0.0, 0.0
C13_Witness ==
  /\ Called(10)
  /\ Len(raw.rows) = 3
  /\ raw.rows[1].Fare = F(1) /\ table.rows[1].FareLog10 = F(0 - Unit)
  /\ raw.rows[2].Fare = F(0) /\ table.rows[2].FareLog10 = F(0)
  /\ raw.rows[3].Fare = F(-50) /\ table.rows[3].FareLog10 = F(0)

\* C14: _convert_embarked_to_location_names turns S, C and Q into
\* Southampton, Cherbourg and Queenstown and hands every other value, a code
\* it does not know and null, on as it is; the rows keep count and order.
C14_ConvertEmbarkedToLocationNames ==
  Called(16) =>
    /\ table.cols = raw.cols
    /\ Len(table.rows) = Len(raw.rows)
    /\ \A i \in DOMAIN table.rows :
         LET e == raw.rows[i].Embarked
             n == table.rows[i].Embarked
         IN /\ e = S(<<"S">>) => n = S(sSouthampton)
            /\ e = S(<<"C">>) => n = S(sCherbourg)
            /\ e = S(<<"Q">>) => n = S(sQueenstown)
            /\ e \notin {S(<<"S">>), S(<<"C">>), S(<<"Q">>)} => n = e

\* a known code, an unknown code and a null, returned in that order
C14_Witness ==
  /\ Called(16)
  /\ Len(raw.rows) = 3
  /\ raw.rows[1].Embarked = S(<<"Q">>) /\ table.rows[1].Embarked = S(sQueenstown)
  /\ raw.rows[2].Embarked = S(<<"X">>) /\ table.rows[2].Embarked = S(<<"X">>)
  /\ IsNull(raw.rows[3].Embarked) /\ IsNull(table.rows[3].Embarked)


\* the columns prepare_data adds, in the order of the stages that add them
DerivedCols ==
  <<"Title", "CabinOccupancy", "TicketShareCount", "Level", "FareLog10",
    "AgeInDecades">>

\* C15: prepare_data on a table with the 12 raw columns and no rows raises
\* nothing and returns no rows under the full schema: the 12 raw columns and
\* the 6 derived ones, each once, and no helper column such as AverageAge.
C15_EmptyTableKeepsSchema ==
  (unit = 0 /\ raw.cols = RawCols /\ raw.rows = <<>>) =>
    /\ err = "none"
    /\ table.rows = <<>>
    /\ Returned =>
         /\ table.cols = RawCols \o DerivedCols
         /\ Len(table.cols) = 18
         /\ Cardinality(Range(table.cols)) = 18
         /\ "AverageAge" \notin Range(table.cols)

\* prepare_data has returned from the call on the empty table
C15_Witness ==
  /\ Returned
  /\ raw.cols = RawCols /\ raw.rows = <<>>
  /\ table.rows = <<>>
  /\ Len(table.cols) = 18


\* the columns the stage at position k reads
Needs(k) ==
  CASE k = 1 -> {"PassengerId", "Survived", "Age", "SibSp", "Parch", "Fare"}
    [] k \in {2, 7, 9} -> {"Cabin"}
    [] k \in {3, 10} -> {"Fare"}
    [] k \in {4, 16} -> {"Embarked"}
    [] k = 5 -> {"Name"}
    [] k = 6 -> {"Title"}
    [] k = 8 -> {"Ticket"}
    [] k = 11 -> {"Title", "Age"}
    [] k = 12 -> {"Age"}
    [] k = 13 -> {"Level"}
    [] k = 14 -> {"AgeInDecades", "Pclass"}
    [] k = 15 -> {"Survived"}

\* the raw columns some stage of prepare_data reads: all but Sex
RequiredCols == UNION {Needs(k) : k \in 1..16} \cap Range(RawCols)

\* a stage that starts on a table without a column it reads raises there and
\* hands no table on
MissingColumnRaises ==
  \A k \in 1..16 :
    (pc = k /\ ~HasCols(table, Needs(k))) =>
      /\ err' = "ColumnNotFoundError"
      /\ pc' = Done
      /\ table' = table
      /\ stats' = NoStats

\* C16: a stage whose column is absent fails with an error and returns no
\* table (_calculate_decade_from_age on a table of PassengerId and Name);
\* prepare_data on a table that lacks a column some stage reads never gets
\* past that stage to a result, and nothing is aggregated after the error.
C16_MissingColumnIsFatal ==
  /\ [][MissingColumnRaises]_vars
  /\ [](/\ \A k \in 1..16 :
            (unit = k /\ pc = Done /\ ~HasCols(raw, Needs(k))) =>
              err = "ColumnNotFoundError" /\ table = raw
        /\ (unit = 0 /\ ~HasCols(raw, RequiredCols)) => ~Returned
        /\ err # "none" => pc = Done /\ stats = NoStats)

\* _calculate_decade_from_age has raised on the table of PassengerId and Name
C16_Witness ==
  /\ unit = 12 /\ pc = Done
  /\ raw.cols = <<"PassengerId", "Name">>
  /\ err = "ColumnNotFoundError"
  /\ table = raw

\* prepare_data has raised at _add_ticket_sharing_count, on a table without
\* the column Ticket
C16_WitnessPrepare ==
  /\ unit = 0 /\ pc = Done
  /\ "Ticket" \notin Range(raw.cols)
  /\ err = "ColumnNotFoundError"
  /\ table.cols = SelectRows(RawCols, {i \in DOMAIN RawCols : RawCols[i] # "Ticket"})
                     \o <<"Title", "CabinOccupancy">>


\* load_titanic_data has finished, with a table or with an exception
Loaded == unit = LoadUnit /\ pc = Done

\* C17: load_titanic_data fails with FileNotFoundError, never RuntimeError,
\* when nothing exists at the path, and with a RuntimeError whose message ends
\* with the cause when the file exists and read_csv fails on it; neither call
\* returns a table; the existence check and the read come after the delay.
C17_LoadClassifiesFailures ==
  unit = LoadUnit =>
    /\ load.at \in {"exists", "read", "returned", "raised"} =>
         load.elapsed = load.delay_seconds
    /\ (load.at = "raised") = (err # "none")
    /\ Loaded /\ ~load.file.exists =>
         /\ load.at = "raised"
         /\ load.error.type = "FileNotFoundError"
         /\ err = "FileNotFoundError"
         /\ load.df = <<>>
    /\ Loaded /\ load.file.exists /\ load.file.cause # "none" =>
         /\ load.at = "raised"
         /\ load.error.type = "RuntimeError"
         /\ load.error.msg[Len(load.error.msg)] = load.file.cause
         /\ load.data_path \in Range(load.error.msg)
         /\ load.df = <<>>
    /\ Loaded /\ load.file.exists /\ load.file.cause = "none" =>
         /\ load.at = "returned"
         /\ load.df = <<load.file.content>>

\* after a delay of 5 seconds the call has failed on a file that exists and
\* is no CSV, with the cause in its message
C17_Witness ==
  /\ Loaded
  /\ load.file.exists /\ load.file.cause = "ComputeError"
  /\ load.elapsed = DefaultDelay
  /\ load.error = LoadError(load.data_path, "ComputeError")
  /\ load.df = <<>>


\* C18: calculate_parameters never returns an infinite or undefined mu or
\* sigma, also for number_of_bar_staff = 0, and generate_wait_times never
\* draws its samples from such parameters.
C18_StaffZeroGuarded ==
  (unit = BeerUnit /\ beer.at \in {"draw", "returned"}) =>
    /\ IsFinite(beer.mu) /\ IsFinite(beer.sigma)
    /\ beer.at = "returned" =>
         \A i \in DOMAIN beer.drawn_from : IsFinite(beer.drawn_from[i])


\* create_boxplot has returned its figure
Charted == chart.at = "returned"

\* the rows of the charted table with a value, a category and an outcome
KeptRows ==
  {i \in DOMAIN table.rows :
     /\ ~IsNull(table.rows[i][chart.y_axis])
     /\ ~IsNull(table.rows[i][chart.x_axis])
     /\ ~IsNull(table.rows[i].Survived)}

KeptIn(cat) == {i \in KeptRows : table.rows[i][chart.x_axis] = cat}

\* text is the percentage of survived among count, to one decimal
IsPercentText(text, survived, count) ==
  /\ Len(text) >= 3
  /\ text[Len(text) - 1] = "."
  /\ \A i \in (DOMAIN text) \ {Len(text) - 1} : IsDigit(text[i])
  /\ LET r == DecVal(SubSeq(text, 1, Len(text) - 2)) * Unit
                 + DigitVal(text[Len(text)])
     IN /\ text = FormatF64(r)
        /\ 2 * r * count - 2 * 100 * Unit * survived <= count
        /\ 2 * 100 * Unit * survived - 2 * r * count <= count

\* the places of the two fixed pieces of a tick label
CountMark(label) == CHOOSE i \in DOMAIN label : label[i] = "<br>(n="
RateMark(label) == CHOOSE i \in DOMAIN label : label[i] = ", s="

\* the three parts of a label that reads "<cat><br>(n=<n>, s=<rate>%)"
LabelCategory(label) == SubSeq(label, 1, CountMark(label) - 1)
LabelCount(label) ==
  DecVal(SubSeq(label, CountMark(label) + 1, RateMark(label) - 1))
LabelRate(label) == SubSeq(label, RateMark(label) + 1, Len(label) - 1)

RECURSIVE SumLabelCounts(_)
SumLabelCounts(labels) ==
  IF labels = <<>> THEN 0
  ELSE LabelCount(Head(labels)) + SumLabelCounts(Tail(labels))

\* C19: create_boxplot keeps the rows whose value, category and Survived are
\* not null, and has one tick label per distinct category of the kept rows,
\* ascending, reading "<category><br>(n=<count>, s=<rate>%)" with the count
\* of kept rows of the category and the percentage of them that survived;
\* both lookups hold every such category, no label misses its key, and the
\* counts of the labels add up to the number of kept rows.
C19_TickLabels ==
  /\ err # "KeyError"
  /\ Charted =>
       LET cats == {table.rows[i][chart.x_axis] : i \in KeptRows}
           order == SortKeys(cats)
           labels == chart.tick_labels
       IN /\ chart.clean_data = Table(table.cols, SelectRows(table.rows, KeptRows))
          /\ cats \subseteq DOMAIN chart.category_counts
          /\ cats \subseteq DOMAIN chart.survival_rates
          /\ Len(labels) = Cardinality(cats)
          /\ \A k \in 1..(Len(order) - 1) : LessVal(order[k], order[k + 1])
          /\ \A k \in DOMAIN labels :
               LET count == Cardinality(KeptIn(order[k]))
                   survived == Cardinality({i \in KeptIn(order[k]) :
                                             table.rows[i].Survived = S(sSurvived)})
               IN /\ labels[k] = LabelCategory(labels[k]) \o <<"<br>(n=">>
                                    \o DecStr(LabelCount(labels[k])) \o <<", s=">>
                                    \o LabelRate(labels[k]) \o <<"%)">>
                  /\ LabelCategory(labels[k]) = CastStr(order[k]).v
                  /\ LabelCount(labels[k]) = count
                  /\ IsPercentText(LabelRate(labels[k]), survived, count)
          /\ SumLabelCounts(labels) = Cardinality(KeptRows)


\* the chart of FareLog10 by Pclass of a prepared table of six rows: the row
\* without an outcome is dropped, first class has one row, a survivor, third
\* class the four others, none of them a survivor
C19_Witness ==
  /\ Charted /\ unit = 0
  /\ chart.x_axis = "Pclass"
  /\ Len(table.rows) = 6
  /\ Len(chart.clean_data.rows) = 5
  /\ chart.tick_labels =
       <<<<"1", "<br>(n=", "1", ", s=", "1", "0", "0", ".", "0", "%)">>,
         <<"3", "<br>(n=", "4", ", s=", "0", ".", "0", "%)">>>>

\* the chart of Age by Sex of a table of its own: two women of three survived
C19_WitnessRounded ==
  /\ Charted /\ unit = BoxplotUnit
  /\ chart.tick_labels =
       <<<<"f", "<br>(n=", "3", ", s=", "6", "6", ".", "7", "%)">>>>


\* the age a returned row came in with, as a number
RawAge(r) == CastF64(RawRowOf(r).Age)

\* the returned rows with the Title of row i whose age was known
KnownPeers(i) ==
  {j \in DOMAIN table.rows :
     /\ table.rows[j].Title = table.rows[i].Title
     /\ ~IsNull(RawAge(table.rows[j]))}

RECURSIVE SumRawAge(_)
SumRawAge(idx) ==
  IF idx = {} THEN 0
  ELSE LET j == CHOOSE j \in idx : TRUE
       IN RawAge(table.rows[j]).v + SumRawAge(idx \ {j})

\* age is the mean of the known ages of the peers, cut to a whole number
IsTruncatedMean(age, peers) ==
  /\ age.t = "f64"
  /\ age.v % Unit = 0
  /\ age.v * Cardinality(peers) <= SumRawAge(peers)
  /\ SumRawAge(peers) < (age.v + Unit) * Cardinality(peers)

\* C20: in the table prepare_data returns, a record that came in with an Age
\* keeps it, and a record that came in without one has the mean of the known
\* ages of the records with its consolidated Title, cut to a whole number.
C20_AgeImputedFromConsolidatedTitle ==
  Returned =>
    \A i \in DOMAIN table.rows :
      LET r == table.rows[i]
      IN IF ~IsNull(RawAge(r)) THEN r.Age = RawAge(r)
         ELSE /\ ~IsNull(r.Age)
              /\ IsTruncatedMean(r.Age, KnownPeers(i))

\* the same where some record with the consolidated Title has a known age;
\* the Title itself is that of the name, or "Other" when fewer than
\* RareTitleLimit returned records carry it
C20_WhereTheTitleHasAnAge ==
  Returned =>
    \A i \in DOMAIN table.rows :
      LET r == table.rows[i]
      IN IF ~IsNull(RawAge(r)) THEN r.Age = RawAge(r)
         ELSE IF KnownPeers(i) # {} THEN IsTruncatedMean(r.Age, KnownPeers(i))
         ELSE IsNull(r.Age)

\* a doctor without an age, returned with the age 4.5, cut to 4.0, of the one
\* other record of the pooled title "Other", who came in as a Mr
C20_PooledWitness ==
  /\ Returned
  /\ \E i, j \in DOMAIN table.rows :
       /\ RawRowOf(table.rows[i]).Name = S(nameDr)
       /\ IsNull(RawAge(table.rows[i]))
       /\ RawRowOf(table.rows[j]).Name = S(nameMr)
       /\ table.rows[i].Title = S(sOther) /\ table.rows[j].Title = S(sOther)
       /\ KnownPeers(i) = {j}
       /\ RawAge(table.rows[j]) = F(45)
       /\ table.rows[i].Age = F(4 * Unit)


FirstChar(x) == S(<<Head(x.v)>>)

\* the step of _resolve_level_t leaves the rows in place, rewrites Level "T"
\* to "A" and changes no other Level and no other column
RemapsOnlyLevel ==
  (pc = 13 /\ pc' # 13 /\ err' = "none") =>
    /\ table'.cols = table.cols
    /\ Len(table'.rows) = Len(table.rows)
    /\ \A i \in DOMAIN table.rows :
         /\ \A c \in Range(table.cols) \ {"Level"} :
              table'.rows[i][c] = table.rows[i][c]
         /\ table'.rows[i].Level =
              IF table.rows[i].Level = S(<<"T">>) THEN S(<<"A">>)
              ELSE table.rows[i].Level

\* C22: after prepare_data every row's Level is the first character of its
\* filled Cabin, with "T" given as "A": no row has Level "T", a row whose
\* Cabin was null on input has Cabin "None" and Level "N", and the remapping
\* step changes Level only, never Cabin or CabinOccupancy.
C22_LevelFromCabin ==
  /\ [][RemapsOnlyLevel]_vars
  /\ [](Returned =>
         \A i \in DOMAIN table.rows :
           LET r == table.rows[i]
           IN /\ IsStr(r.Cabin) /\ Len(r.Cabin.v) >= 1
              /\ r.Level = IF FirstChar(r.Cabin) = S(<<"T">>) THEN S(<<"A">>)
                            ELSE FirstChar(r.Cabin)
              /\ r.Level # S(<<"T">>)
              /\ IsNull(RawRowOf(r).Cabin) =>
                   r.Cabin = S(sNone) /\ r.Level = S(<<"N">>))

\* prepare_data has returned a row of cabin "T" as level "A", its Cabin and
\* CabinOccupancy in place, next to a row whose Cabin was null
C22_Witness ==
  /\ Returned
  /\ \E i \in DOMAIN table.rows :
       /\ RawRowOf(table.rows[i]).Cabin = S(cT)
       /\ table.rows[i].Cabin = S(cT)
       /\ table.rows[i].CabinOccupancy = I(1)
       /\ table.rows[i].Level = S(<<"A">>)
  /\ \E i \in DOMAIN table.rows :
       /\ IsNull(RawRowOf(table.rows[i]).Cabin)
       /\ table.rows[i].Level = S(<<"N">>)
====
